---- MODULE Spec2Model ----
(***************************************************************************)
(* Lunori front end (src/frontend/app.js): the recording coordinator.      *)
(* The record button's click handler, the MediaRecorder event callbacks    *)
(* and the chunk-upload promise chain are modelled as they run on the      *)
(* browser's single thread: one action is one task of the event loop       *)
(* together with every microtask continuation it triggers.                 *)
(*                                                                         *)
(* MediaRecorder follows the W3C MediaStream Recording algorithm:          *)
(* requestData() queues a task that fires dataavailable; stop() sets the   *)
(* state to inactive at once and queues a task that fires dataavailable    *)
(* and then stop; stop() on an inactive recorder does nothing.             *)
(***************************************************************************)
EXTENDS Integers, Sequences, FiniteSets, TLC

\* ---- bounds of the model ----------------------------------------------
\* A run is either a short one, in which the user clicks at any moment, or a
\* long one, in which the user starts once and stops once.
MaxClicks == 3       \* record-button clicks in a short run
MaxFragments == 2    \* non-empty fragments the capture source emits in a short run
LongFragments == 9   \* non-empty fragments the capture source emits in a long run
MaxInFlight == 2     \* chunk requests the server has not yet answered
LiveFragments == 1   \* non-empty fragments in a run checked for progress

\* ---- program constant --------------------------------------------------
MaxPending == 8      \* retained in-flight handles (app.js:684)

VARIABLES
  mediaRecorder,   \* 0 = null, else the recorder object the global refers to
  recState,        \* recorder -> "none" | "recording" | "inactive"
  recTasks,        \* recorder -> queue of tasks the recorder has posted
  recordedChunks,  \* sequence of fragment ids
  pendingUploads,  \* sequence of upload handles (positions in uploads)
  chunkCounter,
  liveSessionId,   \* 0 = null, else the identifier of the session
  uploads,         \* every /transcribe/chunk request sent, in order
  finalizeCalls,   \* every /transcribe/finalize request sent, in order
  handlers,        \* one entry per click: the async click handler's position
  transcriptBox,
  statusLine,
  lastTranscribe,
  captured,        \* number of non-empty fragments emitted so far
  emitted,         \* fragment -> the recorder that emitted it (watched runs)
  resetMark,       \* value of captured when recordedChunks was last emptied
  limits,          \* the bounds of this run: clicks, fragments, requests in
                   \* flight, whether the user clicks Record once and Stop
                   \* once only, and whether the run is watched (emitted
                   \* and the ups of finalize calls are recorded)
  warned,          \* upload whose failure the task just run passed to
                   \* console.warn (line 680), 0 if it logged none
  arg,             \* the arguments of a function applied on its own
  ret,             \* what that function returned
  store,           \* the entries of the remote store, in listing order
  uploaded,        \* number of names the remote services have given
  heap,            \* every entry object a list response has created
  allEntries,      \* the cache: references into heap
  historyPanel,    \* what the history panel shows
  dashboard,       \* streak badge and weekly counts
  searchInput,     \* the text in the search field
  pendingImages,   \* the staged attachments
  imagePreview,    \* number of attachment cards drawn
  calls,           \* the async handlers that wait for a response
  answered,        \* the response the task just run has handled, if any,
                   \* and whether every list and search fetch succeeded
  events           \* number of user events so far

\* the state outside the recording coordinator
fnVars == <<arg, ret>>
journalVars == <<store, uploaded, heap, allEntries, historyPanel, dashboard,
                 searchInput, pendingImages, imagePreview, calls, answered,
                 events>>
restVars == <<fnVars, journalVars>>

\* the state of the recording coordinator
recVars == <<mediaRecorder, recState, recTasks, recordedChunks, pendingUploads,
             chunkCounter, liveSessionId, uploads, finalizeCalls, handlers,
             captured, emitted, resetMark, limits, warned>>

\* what the user sees and what Save would store
uiVars == <<transcriptBox, statusLine, lastTranscribe>>

vars == <<recVars, uiVars, restVars>>

Limits == {[clicks |-> MaxClicks, frags |-> MaxFragments, once |-> FALSE,
            inflight |-> MaxInFlight, watch |-> FALSE],
           [clicks |-> MaxClicks, frags |-> LongFragments, once |-> TRUE,
            inflight |-> MaxInFlight, watch |-> FALSE]}
Recorders == 1..(MaxClicks + 1)

\* ---- text values -------------------------------------------------------
Txt(k, a) == [k |-> k, a |-> a]
Empty == Txt("empty", 0)
ChunkText(u) == Txt("chunk", u)        \* trimmed transcript of upload u's response
FinalText(f) == Txt("final", f)        \* final_transcript of finalize call f
ErrGetUserMedia == 1
ErrFinalize == 2
MicError(e) == Txt("micerror", e)      \* `Mic error: ${err.message}`
NoTranscribe == [filename |-> 0, transcript |-> Txt("null", 0)]

NoArg == [f |-> "none"]

\* the response to a waiting handler and whether it was a success; clean
\* tells that no list fetch and no entry fetch of a search has failed so far
Answer(call, success) ==
  [call |-> call, ok |-> success,
   clean |-> answered.clean /\ (success \/ call.k \notin {"list", "search"})]
NoAnswer == [call |-> [k |-> "none"], ok |-> FALSE, clean |-> TRUE]

Task(t, h) == [t |-> t, h |-> h]

LastN(s, n) == SubSeq(s, Len(s) - n + 1, Len(s))

IsRecording == mediaRecorder # 0 /\ recState[mediaRecorder] = "recording"

RecInit ==
  /\ mediaRecorder = 0
  /\ recState = [r \in Recorders |-> "none"]
  /\ recTasks = [r \in Recorders |-> <<>>]
  /\ recordedChunks = <<>>
  /\ pendingUploads = <<>>
  /\ chunkCounter = 0
  /\ liveSessionId = 0
  /\ uploads = <<>>
  /\ finalizeCalls = <<>>
  /\ handlers = <<>>
  /\ transcriptBox = Empty
  /\ statusLine = Empty
  /\ lastTranscribe = NoTranscribe
  /\ captured = 0
  /\ emitted = <<>>
  /\ resetMark = 0
  /\ warned = 0

\* the page after load, the remote store being s
JournalInit(s) ==
  /\ store = s
  /\ uploaded = 0
  /\ heap = <<>>
  /\ allEntries = <<>>
  /\ historyPanel = [k |-> "hidden", rows |-> <<>>]
  /\ dashboard = [streak |-> 0, counts |-> <<>>]
  /\ searchInput = <<>>
  /\ pendingImages = <<>>
  /\ imagePreview = 0
  /\ calls = <<>>
  /\ answered = NoAnswer
  /\ events = 0

Init ==
  /\ RecInit
  /\ limits \in Limits
  /\ arg = NoArg
  /\ ret = NoArg
  /\ JournalInit(<<>>)

\* ---- helpers ------------------------------------------------------------
Range(s) == {s[i] : i \in 1..Len(s)}
HandlerIds == [i \in 1..Len(handlers) |-> i]
Canon == <<"requestData", "flushed", "stop", "stopped", "upload", "settled", "finalize">>

\* The part of the state a chain of microtask continuations works on.
Session == [ch |-> recordedChunks, ups |-> uploads, pend |-> pendingUploads,
            ctr |-> chunkCounter, fin |-> finalizeCalls, hs |-> handlers,
            cap |-> captured, em |-> emitted]

\* the cap keeping the first 8 handles instead of the last 8
PushPendingKeepOldest(pend, id) ==
  LET pushed == Append(pend, id)
  IN IF Len(pushed) > MaxPending THEN SubSeq(pushed, 1, MaxPending) ELSE pushed

\* pendingUploads.push(p); if (length > 8) pendingUploads = pendingUploads.slice(-8)
PushPending(pend, id) ==
  LET pushed == Append(pend, id)
  IN IF Len(pushed) > MaxPending THEN LastN(pushed, MaxPending) ELSE pushed

\* The request uploadCumulativeBlob sends: the Blob of all recordedChunks,
\* tagged with liveSessionId and chunkCounter++ (ChunkRequestDelta: a request
\* that carries the newest fragment only).  mark and cap record how
\* many fragments the capture source had emitted when recordedChunks was last
\* emptied and at submission; late records, once the response is handled,
\* that it found no recorder recording and a final transcript in the box.
ChunkRequestDelta(S) ==
  [sid |-> liveSessionId, index |-> S.ctr, payload |-> <<S.ch[Len(S.ch)]>>,
   pending |-> TRUE, mark |-> resetMark, cap |-> S.cap, late |-> FALSE]

ChunkRequest(S) ==
  [sid |-> liveSessionId, index |-> S.ctr, payload |-> S.ch, pending |-> TRUE,
   mark |-> resetMark, cap |-> S.cap, late |-> FALSE]

uploadCumulativeBlob(S) ==
  IF S.ch = <<>>                       \* if (!blob.size) return
  THEN S
  ELSE [S EXCEPT !.ups = Append(@, ChunkRequest(S)),
                 !.ctr = @ + 1,
                 !.pend = PushPending(@, Len(S.ups) + 1)]

\* fetch('/transcribe/finalize', {session_id: liveSessionId}) by handler h;
\* ups records how many chunk requests had been sent when the call was made
SendFinalize(S, h) ==
  [S EXCEPT !.fin = Append(@, [sid |-> liveSessionId, by |-> h,
                               ups |-> IF limits.watch THEN Len(S.ups)
                                                       ELSE 0]),
            !.hs[h].pc = "finalizeWait",
            !.hs[h].call = Len(S.fin) + 1,
            !.hs[h].steps = Append(@, "finalize")]

AllSettled(S, w) == \A u \in w : ~S.ups[u].pending

\* if (pendingUploads.length) await Promise.allSettled(pendingUploads); then finalize
AwaitSettled(S, h) ==
  IF S.pend = <<>>
  THEN SendFinalize(S, h)
  ELSE LET w == Range(S.pend)
           T == [S EXCEPT !.hs[h].wait = w]
       IN IF AllSettled(S, w)
          THEN SendFinalize([T EXCEPT !.hs[h].steps = Append(@, "settled")], h)
          ELSE [T EXCEPT !.hs[h].pc = "settleWait"]

\* the handler's continuation after `await stopped`
AfterStopped(S, h) ==
  LET U == uploadCumulativeBlob(S)
      sent == Len(U.ups) > Len(S.ups)
      V == [U EXCEPT !.hs[h].steps = IF sent THEN @ \o <<"stopped", "upload">>
                                             ELSE Append(@, "stopped")]
  IN AwaitSettled(V, h)

\* a continuation that resets the chunk sequence and the counter before the
\* finalize response is in
AfterSettledResetting(S, h) ==
  [SendFinalize([S EXCEPT !.hs[h].steps = Append(@, "settled")], h)
     EXCEPT !.ch = <<>>, !.ctr = 0]

\* the handler's continuation after Promise.allSettled resolved
AfterSettled(S, h) ==
  SendFinalize([S EXCEPT !.hs[h].steps = Append(@, "settled")], h)

RECURSIVE RunStopped(_, _)
RunStopped(ids, S) ==
  IF ids = <<>> THEN S ELSE RunStopped(Tail(ids), AfterStopped(S, Head(ids)))

RECURSIVE RunSettled(_, _)
RunSettled(ids, S) ==
  IF ids = <<>> THEN S ELSE RunSettled(Tail(ids), AfterSettled(S, Head(ids)))

InFlight(S) == Cardinality({u \in 1..Len(S.ups) : S.ups[u].pending})

Install(S) ==
  /\ InFlight(S) <= limits.inflight
  /\ recordedChunks' = S.ch
  /\ uploads' = S.ups
  /\ pendingUploads' = S.pend
  /\ chunkCounter' = S.ctr
  /\ captured' = S.cap
  /\ emitted' = S.em
  /\ finalizeCalls' = S.fin
  /\ handlers' = S.hs

\* ---- the record button ---------------------------------------------------
NewHandler(kind, pc, rec, steps) ==
  [kind |-> kind, pc |-> pc, rec |-> rec, wait |-> {}, call |-> 0,
   steps |-> steps, flushOk |-> FALSE]

\* click while mediaRecorder.state === 'recording': lines 692-701
ClickStop ==
  /\ warned' = 0
  /\ Len(handlers) < limits.clicks
  /\ limits.once => ~\E h \in 1..Len(handlers) : handlers[h].kind = "stop"
  /\ IsRecording
  /\ statusLine' = Txt("finalizing", 0)
  /\ handlers' = Append(handlers,
        NewHandler("stop", "flushWait", mediaRecorder, <<"requestData">>))
  /\ recTasks' = [recTasks EXCEPT ![mediaRecorder] =
                     Append(@, Task("reqdata", Len(handlers) + 1))]
  /\ UNCHANGED <<mediaRecorder, recState, recordedChunks, pendingUploads,
                 chunkCounter, liveSessionId, uploads, finalizeCalls,
                 transcriptBox, lastTranscribe, captured, emitted, resetMark, limits, restVars>>

\* any other click: line 746, suspended at getUserMedia
ClickStart ==
  /\ warned' = 0
  /\ Len(handlers) < limits.clicks
  /\ limits.once => handlers = <<>>
  /\ ~IsRecording
  /\ handlers' = Append(handlers, NewHandler("start", "micWait", 0, <<>>))
  /\ UNCHANGED <<mediaRecorder, recState, recTasks, recordedChunks,
                 pendingUploads, chunkCounter, liveSessionId, uploads,
                 finalizeCalls, transcriptBox, statusLine, lastTranscribe,
                 captured, emitted, resetMark, limits, restVars>>

NextSession == Cardinality({r \in Recorders : recState[r] # "none"}) + 1

\* getUserMedia resolved: lines 747-773
MicGranted(h) ==
  /\ warned' = 0
  /\ h \in 1..Len(handlers)
  /\ handlers[h].pc = "micWait"
  /\ LET n == NextSession IN
     /\ recordedChunks' = <<>>
     /\ pendingUploads' = <<>>
     /\ chunkCounter' = 0
     /\ liveSessionId' = n
     /\ statusLine' = Txt("live", n)
     /\ transcriptBox' = Empty
     /\ mediaRecorder' = n
     /\ recState' = [recState EXCEPT ![n] = "recording"]
     /\ handlers' = [handlers EXCEPT ![h].pc = "done", ![h].rec = n]
  /\ resetMark' = captured
  /\ UNCHANGED <<recTasks, uploads, finalizeCalls, lastTranscribe, captured, emitted, limits, restVars>>

\* a START branch that resets the session before getUserMedia settles
MicDeniedAfterReset(h) ==
  /\ warned' = 0
  /\ h \in 1..Len(handlers)
  /\ handlers[h].pc = "micWait"
  /\ statusLine' = Empty
  /\ transcriptBox' = MicError(ErrGetUserMedia)
  /\ handlers' = [handlers EXCEPT ![h].pc = "failed"]
  /\ recordedChunks' = <<>>
  /\ pendingUploads' = <<>>
  /\ chunkCounter' = 0
  /\ liveSessionId' = 0
  /\ resetMark' = captured
  /\ UNCHANGED <<mediaRecorder, recState, recTasks, uploads,
                 finalizeCalls, lastTranscribe, captured, emitted, limits, restVars>>

\* getUserMedia rejected: catch, lines 775-779
MicDenied(h) ==
  /\ warned' = 0
  /\ h \in 1..Len(handlers)
  /\ handlers[h].pc = "micWait"
  /\ statusLine' = Empty
  /\ transcriptBox' = MicError(ErrGetUserMedia)
  /\ handlers' = [handlers EXCEPT ![h].pc = "failed"]
  /\ UNCHANGED <<mediaRecorder, recState, recTasks, recordedChunks,
                 pendingUploads, chunkCounter, liveSessionId, uploads,
                 finalizeCalls, lastTranscribe, captured, emitted, resetMark, limits, restVars>>

\* ---- MediaRecorder events ------------------------------------------------
WaitingFlush(r) ==
  LET Test(h) == handlers[h].pc = "flushWait" /\ handlers[h].rec = r
  IN SelectSeq(HandlerIds, Test)

WaitingStop(r) ==
  LET Test(h) == handlers[h].pc = "stopWait" /\ handlers[h].rec = r
  IN SelectSeq(HandlerIds, Test)

\* ondataavailable, lines 761-765
OnDataAvailable(S, nonempty) ==
  IF nonempty
  THEN uploadCumulativeBlob([S EXCEPT !.ch = Append(@, S.cap + 1),
                                      !.cap = @ + 1])
  ELSE S                               \* if (!e.data || e.data.size === 0) return

\* the handler's continuation after `await flushed`, lines 704-708:
\* it listens for 'stop' on the global mediaRecorder and calls stop() on it
AfterFlushed(hs, h, own) ==
  [hs EXCEPT ![h].pc = "stopWait",
             ![h].rec = mediaRecorder,
             ![h].steps = @ \o <<"flushed", "stop">>,
             ![h].flushOk = (h = own)]

\* A dataavailable event of recorder r.  tasks is the recorders' task queue
\* once the event's own task is taken off, own the handler whose
\* requestData() the event answers (0 for a timeslice or a stop fragment).
DataAvailable(r, nonempty, tasks, own) ==
  LET S == OnDataAvailable(Session, nonempty)
      W == Range(WaitingFlush(r))
      stops == W # {} /\ recState[mediaRecorder] = "recording"
  IN /\ nonempty => captured < limits.frags
     /\ warned' = 0
     /\ Install([S EXCEPT !.hs = [h \in 1..Len(handlers) |->
                      IF h \in W THEN AfterFlushed(S.hs, h, own)[h] ELSE S.hs[h]],
                           !.em = IF nonempty /\ limits.watch
                                    THEN Append(@, r) ELSE @])
     /\ recState' = IF stops THEN [recState EXCEPT ![mediaRecorder] = "inactive"]
                             ELSE recState
     /\ recTasks' = IF stops
                    THEN [tasks EXCEPT ![mediaRecorder] =
                            @ \o <<Task("stopdata", 0), Task("stopev", 0)>>]
                    ELSE tasks
     /\ UNCHANGED <<mediaRecorder, liveSessionId, transcriptBox, statusLine,
                    lastTranscribe, resetMark, limits, restVars>>

Dequeue(r) == [recTasks EXCEPT ![r] = Tail(@)]

\* the timeslice timer of start(4000), line 772
Timeslice(r, nonempty) ==
  /\ recState[r] = "recording"
  /\ DataAvailable(r, nonempty, recTasks, 0)

\* the task queued by requestData(), line 700
RequestedData(r, nonempty) ==
  /\ recTasks[r] # <<>>
  /\ Head(recTasks[r]).t = "reqdata"
  /\ DataAvailable(r, nonempty, Dequeue(r), Head(recTasks[r]).h)

\* the dataavailable event of the task queued by stop(), line 707
StopData(r, nonempty) ==
  /\ recTasks[r] # <<>>
  /\ Head(recTasks[r]).t = "stopdata"
  /\ DataAvailable(r, nonempty, Dequeue(r), 0)

\* the stop event of that task: onstop (767-769), then every handler
\* suspended at `await stopped` runs lines 710-723
StopEvent(r) ==
  /\ warned' = 0
  /\ recTasks[r] # <<>>
  /\ Head(recTasks[r]).t = "stopev"
  /\ recTasks' = Dequeue(r)
  /\ Install(RunStopped(WaitingStop(r), Session))
  /\ UNCHANGED <<mediaRecorder, recState, liveSessionId, transcriptBox,
                 statusLine, lastTranscribe, resetMark, limits, restVars>>

\* ---- network responses ---------------------------------------------------
ChunkOutcomes == {"text", "blank", "failed"}

\* the guard without the test of the recorder's state
PreviewGuardAnyState(outcome) == outcome = "text"

\* line 674: mediaRecorder && mediaRecorder.state === 'recording' && t
PreviewGuard(outcome) == IsRecording /\ outcome = "text"

\* a preview that also shows the transcript-less body of a failed response
PreviewUpdatesOnFailure(outcome) ==
  IsRecording /\ outcome # "blank" /\ liveSessionId # 0

\* line 675 reads liveSessionId.slice: with liveSessionId null it throws
\* before transcriptBox is assigned, and .catch swallows the TypeError
PreviewUpdates(outcome) == PreviewGuard(outcome) /\ liveSessionId # 0

\* .catch of line 680 runs: rejected fetch, body not JSON, !ok (line 671),
\* or the TypeError of line 675
Warns(outcome) ==
  outcome = "failed" \/ (PreviewGuard(outcome) /\ liveSessionId = 0)

WaitingSettle(S) ==
  LET Test(h) == S.hs[h].pc = "settleWait" /\ AllSettled(S, S.hs[h].wait)
  IN SelectSeq(HandlerIds, Test)

\* the promise chain of lines 668-680 for upload u, then the handlers whose
\* Promise.allSettled is resolved by it (lines 719-723)
ChunkResponse(u, outcome) ==
  /\ u \in 1..Len(uploads)
  /\ uploads[u].pending
  /\ warned' = IF Warns(outcome) THEN u ELSE 0
  /\ IF PreviewUpdates(outcome)
     THEN /\ statusLine' = Txt("live", liveSessionId)
          /\ transcriptBox' = ChunkText(u)
     ELSE UNCHANGED <<statusLine, transcriptBox>>
  /\ LET S == [Session EXCEPT !.ups[u].pending = FALSE,
                              !.ups[u].late =
                                 ~IsRecording /\ transcriptBox.k = "final"]
     IN Install(RunSettled(WaitingSettle(S), S))
  /\ UNCHANGED <<mediaRecorder, recState, recTasks, liveSessionId,
                 lastTranscribe, resetMark, limits, restVars>>

\* lines 724-742: res.ok
FinalizeSucceeded(h, outcome) ==
  /\ warned' = 0
  /\ h \in 1..Len(handlers)
  /\ handlers[h].pc = "finalizeWait"
  /\ outcome \in {"ok", "okNoFields"}
  /\ LET f == handlers[h].call
         text == IF outcome = "ok" THEN FinalText(f) ELSE Empty
         file == IF outcome = "ok" THEN f ELSE 0
     IN /\ statusLine' = Txt("words", f)
        /\ transcriptBox' = text
        /\ lastTranscribe' = [filename |-> file, transcript |-> text]
  /\ liveSessionId' = 0
  /\ recordedChunks' = <<>>
  /\ pendingUploads' = <<>>
  /\ chunkCounter' = 0
  /\ resetMark' = captured
  /\ handlers' = [handlers EXCEPT ![h].pc = "done"]
  /\ UNCHANGED <<mediaRecorder, recState, recTasks, uploads, finalizeCalls,
                 captured, emitted, limits, restVars>>

\* fetch rejected, body not JSON, or !res.ok (line 725): catch, lines 775-779
FinalizeFailed(h) ==
  /\ warned' = 0
  /\ h \in 1..Len(handlers)
  /\ handlers[h].pc = "finalizeWait"
  /\ statusLine' = Empty
  /\ transcriptBox' = MicError(ErrFinalize)
  /\ handlers' = [handlers EXCEPT ![h].pc = "failed"]
  /\ UNCHANGED <<mediaRecorder, recState, recTasks, recordedChunks,
                 pendingUploads, chunkCounter, liveSessionId, uploads,
                 finalizeCalls, lastTranscribe, captured, emitted, resetMark, limits, restVars>>

Next ==
  \/ ClickStop
  \/ ClickStart
  \/ \E h \in 1..Len(handlers) : MicGranted(h)
  \/ \E h \in 1..Len(handlers) : MicDenied(h)
  \/ \E r \in Recorders, b \in BOOLEAN : Timeslice(r, b)
  \/ \E r \in Recorders, b \in BOOLEAN : RequestedData(r, b)
  \/ \E r \in Recorders, b \in BOOLEAN : StopData(r, b)
  \/ \E r \in Recorders : StopEvent(r)
  \/ \E u \in 1..Len(uploads), o \in ChunkOutcomes : ChunkResponse(u, o)
  \/ \E h \in 1..Len(handlers), o \in {"ok", "okNoFields"} : FinalizeSucceeded(h, o)
  \/ \E h \in 1..Len(handlers) : FinalizeFailed(h)

Spec == Init /\ [][Next]_vars

\* long runs only: one Start and one Stop around many fragments
InitLong == Init /\ limits.once
SpecLong == InitLong /\ [][Next]_vars

\* Watched runs, checked for progress and for what is submitted before
\* finalize: either one click more than a short run and only empty
\* fragments, or the clicks of a short run and few non-empty fragments.  No
\* request is held back (a run sends at most one chunk request per fragment
\* and per Stop), the capture source delivers every event a recorder has
\* queued (lines 700, 707), and every chunk and finalize request settles.
LiveLimits ==
  {[clicks |-> MaxClicks + 1, frags |-> 0, once |-> FALSE,
    inflight |-> LiveFragments + MaxClicks, watch |-> TRUE],
   [clicks |-> MaxClicks, frags |-> LiveFragments, once |-> FALSE,
    inflight |-> LiveFragments + MaxClicks, watch |-> TRUE]}

InitLive ==
  /\ RecInit
  /\ limits \in LiveLimits
  /\ arg = NoArg
  /\ ret = NoArg
  /\ JournalInit(<<>>)

SpecLive ==
  /\ InitLive
  /\ [][Next]_vars
  /\ WF_vars(\E r \in Recorders, b \in BOOLEAN : RequestedData(r, b))
  /\ WF_vars(\E r \in Recorders, b \in BOOLEAN : StopData(r, b))
  /\ WF_vars(\E r \in Recorders : StopEvent(r))
  /\ WF_vars(\E u \in 1..Len(uploads), o \in ChunkOutcomes :
               ChunkResponse(u, o))
  /\ WF_vars(\E h \in 1..Len(handlers) :
               FinalizeSucceeded(h, "ok") \/ FinalizeFailed(h))

\* ---- the coordinator's state, as the code decides it ---------------------
\* Recording is the test of lines 674 and 692; a stop handshake is in
\* progress while a STOP handler has not returned.
StopInProgress(h) ==
  handlers[h].kind = "stop" /\ handlers[h].pc \notin {"done", "failed"}
Finalizing == ~IsRecording /\ \E h \in 1..Len(handlers) : StopInProgress(h)
Idle == ~IsRecording /\ ~\E h \in 1..Len(handlers) : StopInProgress(h)

\* sessions started and not yet through their stop handshake
ActiveSessions ==
  {r \in Recorders : recState[r] = "recording"}
    \cup {handlers[h].rec : h \in {i \in 1..Len(handlers) : StopInProgress(i)}}

IsPrefix(s, t) == Len(s) <= Len(t) /\ SubSeq(t, 1, Len(s)) = s
FinalizeBy(h) == {f \in 1..Len(finalizeCalls) : finalizeCalls[f].by = h}
Responded(u) == uploads[u].pending /\ ~uploads'[u].pending
Fragments(lo, hi) == [i \in 1..(hi - lo) |-> lo + i]

\* C1: every Stop performs, in order, one forced flush that is waited for,
\* one wait for the stop event, one final cumulative upload, a wait for the
\* outstanding uploads, and then exactly one finalize call.
C1_StopHandshakeInOrder ==
  \A h \in 1..Len(handlers) :
    handlers[h].kind = "stop" =>
      /\ IsPrefix(handlers[h].steps, Canon)
      /\ handlers[h].pc # "flushWait" => handlers[h].flushOk
      /\ handlers[h].pc \in {"finalizeWait", "done", "failed"} =>
           Cardinality(FinalizeBy(h)) = 1

\* C2: a session's finalize call is issued only once every chunk upload
\* submitted for that session has settled, evicted handles included.
C2_FinalizeAfterAllUploadsSettled ==
  \A f \in 1..Len(finalizeCalls) : \A u \in 1..Len(uploads) :
    uploads[u].sid = finalizeCalls[f].sid => ~uploads[u].pending

\* C3: finalize is invoked at most once per session and carries the
\* identifier of the session whose Stop issued it.
C3_FinalizeOncePerSessionWithOwnId ==
  /\ \A f \in 1..Len(finalizeCalls) :
       finalizeCalls[f].sid = handlers[finalizeCalls[f].by].rec
  /\ \A f, g \in 1..Len(finalizeCalls) :
       finalizeCalls[f].sid = finalizeCalls[g].sid => f = g

\* C4: a chunk response of a session other than the live one never changes
\* the transcript preview.
C4_StaleResponseKeepsPreview ==
  [][\A u \in 1..Len(uploads) :
       Responded(u) /\ uploads[u].sid # liveSessionId
         => transcriptBox' = transcriptBox]_vars

\* C5 as stated: the payload submitted with chunk index k is fragments 0..k,
\* for every submission including Stop's final cumulative upload.
C5_PayloadIsFragments0ToK ==
  \A u \in 1..Len(uploads) :
    uploads[u].payload = Fragments(uploads[u].mark, uploads[u].mark + uploads[u].index + 1)

\* C5 amended: every payload is the concatenation, in capture order, of all
\* fragments captured since the chunk sequence was last reset, and a payload
\* with chunk index k holds at least one and at most k+1 fragments.
C5_PayloadIsAllFragmentsSoFar ==
  \A u \in 1..Len(uploads) :
    /\ uploads[u].payload = Fragments(uploads[u].mark, uploads[u].cap)
    /\ Len(uploads[u].payload) >= 1
    /\ Len(uploads[u].payload) <= uploads[u].index + 1

\* a Stop's final upload re-sent two or more fragments under a fresh index
C5_Witness ==
  \E u \in 1..Len(uploads) :
    /\ Len(uploads[u].payload) >= 2
    /\ uploads[u].index = Len(uploads[u].payload)

\* C6: pendingUploads never holds more than 8 handles, and it holds the
\* most recent ones: the oldest are the ones dropped.
C6_PendingUploadsCapped ==
  /\ Len(pendingUploads) <= MaxPending
  /\ Len(pendingUploads) = IF chunkCounter > MaxPending THEN MaxPending ELSE chunkCounter
  /\ \A i \in 1..Len(pendingUploads) :
       pendingUploads[i] = Len(uploads) - Len(pendingUploads) + i

\* the cap was exceeded: a handle of the live session is no longer retained
C6_Witness ==
  /\ Len(pendingUploads) = MaxPending
  /\ chunkCounter > MaxPending
  /\ \E u \in 1..Len(uploads) :
       /\ u \notin Range(pendingUploads)
       /\ uploads[u].mark = resetMark

\* C7: no click allocates a new session identifier while an earlier session
\* is still Recording or Finalizing.
C7_StartOnlyWhenNoSessionActive ==
  [][liveSessionId' \notin {0, liveSessionId} => ActiveSessions = {}]_vars

\* C8: when finalize fails the error is shown, the coordinator is Idle and
\* the session state is reset.
C8_FinalizeFailureResets ==
  [][\A h \in 1..Len(handlers) :
       handlers[h].pc = "finalizeWait" /\ handlers'[h].pc = "failed" =>
         /\ transcriptBox' = MicError(ErrFinalize)
         /\ Idle'
         /\ liveSessionId' = 0
         /\ recordedChunks' = <<>>
         /\ chunkCounter' = 0
         /\ pendingUploads' = <<>>]_vars

\* C9: when finalize succeeds the coordinator is Idle, the transcript box and
\* lastTranscribe hold what that finalize call returned, and the state that
\* is reset is the state of the finalized session and of no other.
C9_FinalizeSuccessPublishesAndResets ==
  [][\A h \in 1..Len(handlers) :
       handlers[h].pc = "finalizeWait" /\ handlers'[h].pc = "done" =>
         /\ Idle'
         /\ transcriptBox' \in {FinalText(handlers[h].call), Empty}
         /\ lastTranscribe'.transcript = transcriptBox'
         /\ lastTranscribe'.filename \in {handlers[h].call, 0}
         /\ liveSessionId = handlers[h].rec
         /\ finalizeCalls[handlers[h].call].sid = handlers[h].rec
         /\ liveSessionId' = 0
         /\ recordedChunks' = <<>>
         /\ chunkCounter' = 0
         /\ pendingUploads' = <<>>]_vars

SessionState == <<liveSessionId, recordedChunks, chunkCounter, pendingUploads>>

\* C11: a failed chunk upload is never shown, never retried, changes no
\* session state, and settles, so that no stop handshake is left waiting
\* for it before its finalize call.
C11_FailedChunkUploadAbsorbed ==
  [][warned' # 0 =>
       /\ Responded(warned')
       /\ transcriptBox' = transcriptBox
       /\ statusLine' = statusLine
       /\ lastTranscribe' = lastTranscribe
       /\ SessionState' = SessionState
       /\ Len(uploads') = Len(uploads)
       /\ \A h \in 1..Len(handlers) :
            handlers'[h].pc = "settleWait" =>
              \E u \in handlers'[h].wait : uploads'[u].pending]_vars

\* the failed upload was the last one a stop handshake waited for, and the
\* finalize call went out in the same task
C11_Witness ==
  /\ warned # 0
  /\ \E h \in 1..Len(handlers) :
       /\ handlers[h].pc = "finalizeWait"
       /\ warned \in handlers[h].wait

\* C12: when getUserMedia fails the error is shown, an Idle coordinator
\* stays Idle, no session identifier is allocated, chunks, counter and
\* in-flight list are untouched, no request is sent and no new attempt to
\* acquire the microphone is started.
C12_MicFailureLeavesStateAlone ==
  [][\A h \in 1..Len(handlers) :
       handlers[h].pc = "micWait" /\ handlers'[h].pc = "failed" =>
         /\ transcriptBox' = MicError(ErrGetUserMedia)
         /\ statusLine' = Empty
         /\ Idle => Idle'
         /\ SessionState' = SessionState
         /\ mediaRecorder' = mediaRecorder
         /\ recState' = recState
         /\ uploads' = uploads
         /\ finalizeCalls' = finalizeCalls
         /\ Len(handlers') = Len(handlers)
         /\ \A g \in 1..Len(handlers) :
              handlers'[g].pc = "micWait" => handlers[g].pc = "micWait" /\ g # h]_vars

\* the microphone was refused while the coordinator was Idle, and it is Idle
C12_Witness ==
  /\ Idle
  /\ liveSessionId = 0
  /\ transcriptBox = MicError(ErrGetUserMedia)
  /\ \E h \in 1..Len(handlers) :
       handlers[h].kind = "start" /\ handlers[h].pc = "failed"

\* ---- the session state between start and finalize outcome ---------------
\* C21: while a session is live, from its start until its own finalize
\* outcome, its chunk sequence only grows by appending at the end (every
\* non-empty fragment captured is its new last element), and its identifier
\* and index counter are not reset, whatever clicks and responses interleave.
C21_LiveSessionChunksAppendOnly ==
  [][(liveSessionId \in ActiveSessions \cap ActiveSessions') =>
       /\ IsPrefix(recordedChunks, recordedChunks')
       /\ captured' # captured =>
            recordedChunks' = Append(recordedChunks, captured')
       /\ liveSessionId' = liveSessionId
       /\ chunkCounter <= chunkCounter']_vars

\* C22: handling a chunk-upload response, success or failure, leaves the
\* chunk sequence, the index counter, the in-flight list and the session
\* identifier as they were, whether or not a reset happened since the request
\* was sent.
C22_ChunkResponseKeepsSessionState ==
  [][\A u \in 1..Len(uploads) :
       Responded(u) => SessionState' = SessionState]_vars

\* a failed response of an earlier session was just handled while a later
\* session, started by a reset since the request, holds fragments
C22_Witness ==
  /\ warned # 0
  /\ ~uploads[warned].pending
  /\ uploads[warned].sid # liveSessionId
  /\ uploads[warned].mark # resetMark
  /\ recordedChunks # <<>>
  /\ chunkCounter > 0

\* C23: no tail audio is lost: the last chunk payload submitted for a session
\* before its finalize call contains every non-empty fragment the session's
\* recorder emitted, the flush fragment and the stop fragment included, and
\* that submission exists if a fragment was emitted at all.
C23_NoTailAudioLost ==
  \A f \in 1..Len(finalizeCalls) :
    LET s == handlers[finalizeCalls[f].by].rec
        frags == {i \in 1..Len(emitted) : emitted[i] = s}
        sent == {u \in 1..finalizeCalls[f].ups : uploads[u].sid = s}
    IN frags # {} =>
         /\ sent # {}
         /\ LET last == CHOOSE u \in sent : \A v \in sent : v <= u
            IN frags \subseteq Range(uploads[last].payload)

\* C24: the user is never stuck in Recording or Finalizing: once Stop is
\* clicked, and the capture source delivers its events and every request
\* settles, the handshake that click started ends with a finalize success or
\* a surfaced error, and the coordinator is no longer Finalizing for it.
C24_StopEventuallyEnds ==
  (\E h \in 1..Len(handlers) : StopInProgress(h))
    ~> (~\E h \in 1..Len(handlers) : StopInProgress(h))

-----------------------------------------------------------------------------
(* Text.  A string is the sequence of its characters.                        *)

Upper == <<"A","B","C","D","E","F","G","H","I","J","K","L","M",
           "N","O","P","Q","R","S","T","U","V","W","X","Y","Z">>
Lower == <<"a","b","c","d","e","f","g","h","i","j","k","l","m",
           "n","o","p","q","r","s","t","u","v","w","x","y","z">>

\* the characters /\s/ matches, of those the texts here are made of
WhiteSpace == {" ", "\t"}

\* String.prototype.toLowerCase
toLowerCase(s) ==
  [i \in 1..Len(s) |->
     IF \E u \in 1..Len(Upper) : Upper[u] = s[i]
       THEN Lower[CHOOSE u \in 1..Len(Upper) : Upper[u] = s[i]]
       ELSE s[i]]

\* String.prototype.trim: s from its first to its last character that is
\* not whitespace
trim(s) ==
  LET inked == {i \in 1..Len(s) : s[i] \notin WhiteSpace}
  IN IF inked = {} THEN <<>>
     ELSE SubSeq(s, CHOOSE i \in inked : \A k \in inked : i <= k,
                    CHOOSE i \in inked : \A k \in inked : i >= k)

\* s.split(/\s+/).filter(Boolean): cur is the piece being read, acc the
\* pieces read so far; a piece ends at whitespace, empty pieces are dropped
RECURSIVE splitWords(_, _, _)
splitWords(s, cur, acc) ==
  IF s = <<>>
    THEN IF cur = <<>> THEN acc ELSE Append(acc, cur)
    ELSE IF Head(s) \in WhiteSpace
      THEN splitWords(Tail(s), <<>>,
                      IF cur = <<>> THEN acc ELSE Append(acc, cur))
      ELSE splitWords(Tail(s), Append(cur, Head(s)), acc)

\* String.prototype.startsWith
startsWith(s, t) == Len(t) <= Len(s) /\ SubSeq(s, 1, Len(t)) = t

\* String.prototype.includes
includes(s, t) ==
  \E i \in 0..Len(s) :
    /\ i + Len(t) <= Len(s)
    /\ SubSeq(s, i + 1, i + Len(t)) = t

\* Array.prototype.join(' ')
RECURSIVE join(_)
join(a) ==
  IF a = <<>> THEN <<>>
  ELSE IF Len(a) = 1 THEN a[1]
  ELSE a[1] \o <<" ">> \o join(Tail(a))

-----------------------------------------------------------------------------
(* Search over the cached entries, every entry already hydrated.             *)

\* the any-term variant of the test of line 487
okAnyTerm(it, terms) ==
  LET text == toLowerCase(it._transcript)
      tags == join(it._imageTags)
  IN \E k \in 1..Len(terms) :
       includes(text, terms[k]) \/ includes(tags, terms[k])

\* the test of lines 485-487: every term is in the text or in the tags
ok(it, terms) ==
  LET text == toLowerCase(it._transcript)
      tags == join(it._imageTags)
  IN \A k \in 1..Len(terms) :
       includes(text, terms[k]) \/ includes(tags, terms[k])

\* the loop of lines 483-489: the entries of items that pass, in order
RECURSIVE filtered(_, _, _)
filtered(items, terms, soFar) ==
  IF items = <<>> THEN soFar
  ELSE filtered(Tail(items), terms,
                IF ok(Head(items), terms)
                  THEN Append(soFar, Head(items))
                  ELSE soFar)

\* the list renderHistoryWithQuery hands to renderHistoryList
renderHistoryWithQuery(query, items) ==
  LET q == trim(query)
  IN IF q = <<>> THEN items
     ELSE filtered(items, splitWords(toLowerCase(q), <<>>, <<>>), <<>>)

-----------------------------------------------------------------------------
(* The functions of the history panel, each applied on its own to arguments  *)
(* drawn from bounded sets.                                                  *)

MaxQueryLen == 3
MaxItems == 2

SeqsUpTo(S, n) == UNION {[1..k -> S] : k \in 0..n}

\* a hydrated entry of the cache
Entry(id, text, tags) ==
  [id |-> id, _transcript |-> text, _imageTags |-> tags]

\* the search of the example
Example ==
  [f |-> "search",
   query |-> <<"h", "a", "p", "p", "y", " ", "q", "u", "i", "e", "t">>,
   items |->
    << Entry(1, <<"I", " ", "f", "e", "l", "t", " ", "h", "a", "p", "p", "y", " ", "t", "o", "d", "a", "y">>, <<>>),
       Entry(2, <<"q", "u", "i", "e", "t", " ", "h", "a", "p", "p", "y", " ", "w", "a", "l", "k">>, <<<<"c", "a", "l", "m">>>>),
       Entry(3, <<"s", "a", "d", " ", "w", "a", "l", "k">>, <<<<"h", "a", "p", "p", "y">>>>) >>]

\* queries of letters of both cases, space and tab over lists of entries
\* with one of three transcripts and one of three tag lists
SearchArgs ==
  {[f |-> "search", query |-> q,
    items |-> [i \in 1..Len(l) |-> Entry(i, l[i][1], l[i][2])]] :
     q \in SeqsUpTo({"a", "B", " ", "\t"}, MaxQueryLen),
     l \in SeqsUpTo({<<>>, <<"a", "b">>, <<"b", "A">>}
                      \X {<<>>, <<<<"a">>>>, <<<<"b">>, <<"a">>>>},
                    MaxItems)}
  \cup {Example}

\* one search over hydrated entries, from the input event to the list shown
Search ==
  /\ arg.f = "search"
  /\ ret = NoArg
  /\ ret' = [f |-> "shown",
             list |-> renderHistoryWithQuery(arg.query, arg.items)]
  /\ UNCHANGED <<recVars, uiVars, arg, journalVars>>

-----------------------------------------------------------------------------
(* Dates.  Time is counted in half days; a Date is null, invalid or a time.  *)

SlotsPerDay == 2
\* the day the functions run on
Today == 400

NullDate == [k |-> "null"]
DateAt(t) == [k |-> "date", t |-> t]

\* created_at as the store sends it: absent, unparseable or a time
parseLocalDateFromISOish(s, now) ==
  IF s.k = "null" THEN NullDate
  ELSE IF s.k = "invalid" THEN DateAt(now)
  ELSE s

\* the calendar day of a Date
ymd(d) == d.t \div SlotsPerDay

\* midnight, n days before the day of now
daysAgoDate(n, now) == DateAt(((now \div SlotsPerDay) - n) * SlotsPerDay)

-----------------------------------------------------------------------------
(* Dashboard and streak.                                                     *)

WeekDays == 6
StreakHorizon == 365

NoEmotions == [k |-> "absent"]
Emotions(labels) == [k |-> "array", labels |-> labels]

\* the seven-day-back variant of the start of the week
weekStartSevenDaysBack(now) == daysAgoDate(WeekDays + 1, now)

\* line 193
weekStart(now) == daysAgoDate(WeekDays, now)

\* the forEach of computeWeeklyTop1Counts, counts being the object so far
RECURSIVE weeklyLoop(_, _, _)
weeklyLoop(items, now, counts) ==
  IF items = <<>> THEN counts
  ELSE LET it == Head(items)
           d == parseLocalDateFromISOish(it.created_at, now)
           top == IF it.emotions_top3.k = "array"
                     /\ it.emotions_top3.labels # <<>>
                    THEN it.emotions_top3.labels[1]
                    ELSE ""
       IN IF d.k = "null" \/ d.t < weekStart(now).t
            THEN weeklyLoop(Tail(items), now, counts)
            ELSE IF top # ""
              THEN weeklyLoop(Tail(items), now,
                     [l \in DOMAIN counts \cup {top} |->
                        IF l = top
                          THEN (IF l \in DOMAIN counts THEN counts[l]
                                                      ELSE 0) + 1
                          ELSE counts[l]])
              ELSE weeklyLoop(Tail(items), now, counts)

computeWeeklyTop1Counts(items, now) == weeklyLoop(items, now, <<>>)

\* the variant of line 246 with no day of grace
graceSpentAtOnce(consecutiveMisses) == consecutiveMisses >= 1

\* line 246
graceSpent(consecutiveMisses) == consecutiveMisses >= 2

\* one iteration of the for loop of computeStreakWithGrace; broken is set
\* by the break of line 246, and the iterations after it do nothing
streakStep(set, st) ==
  IF st.broken THEN st
  ELSE IF st.d \in set
    THEN [d |-> st.d - 1, streak |-> st.streak + 1,
          consecutiveMisses |-> 0, broken |-> FALSE]
    ELSE IF graceSpent(st.consecutiveMisses + 1)
      THEN [st EXCEPT !.consecutiveMisses = @ + 1, !.broken = TRUE]
      ELSE [st EXCEPT !.d = @ - 1, !.consecutiveMisses = @ + 1]

\* n iterations of the loop from st, run as two halves; the second half
\* is skipped when the first one broke out of the loop
RECURSIVE streakLoop(_, _, _)
streakLoop(set, st, n) ==
  IF n = 0 THEN st
  ELSE IF n = 1 THEN streakStep(set, st)
  ELSE LET half == streakLoop(set, st, n \div 2)
       IN IF half.broken THEN half
          ELSE streakLoop(set, half, n - (n \div 2))

computeStreakWithGrace(items, now) ==
  LET set == {ymd(parseLocalDateFromISOish(items[i].created_at, now)) :
                i \in 1..Len(items)}
      today == [d |-> ymd(daysAgoDate(0, now)), streak |-> 0,
                consecutiveMisses |-> 0, broken |-> FALSE]
  IN streakLoop(set, today, StreakHorizon).streak

\* how far back the short day sets of the streak reach
MaxDaysBack == 5

Labels == {"joy", "anger"}
Now == {Today * SlotsPerDay + sl : sl \in 0..(SlotsPerDay - 1)}

\* a time on the day k days before Today (after it, for k < 0)
OnDay(k, sl) == DateAt((Today - k) * SlotsPerDay + sl)

Listed(created, emotions) ==
  [created_at |-> created, emotions_top3 |-> emotions]

ExampleWeek ==
  << Listed(OnDay(0, 0), Emotions(<<"joy">>)),
     Listed(OnDay(0, 1), Emotions(<<"joy">>)),
     Listed(OnDay(8, 0), Emotions(<<"anger">>)) >>

WeeklyArgs ==
  {[f |-> "weekly", now |-> n, items |-> [i \in 1..Len(l) |->
                                            Listed(l[i][1], l[i][2])]] :
     n \in Now,
     l \in SeqsUpTo(({NullDate} \cup
                      {OnDay(k, sl) : k \in {-1, 0, WeekDays, WeekDays + 1},
                                      sl \in 0..(SlotsPerDay - 1)})
                    \X {NoEmotions, Emotions(<<>>), Emotions(<<"joy">>),
                        Emotions(<<"anger", "joy">>)},
                    MaxItems)}
  \cup {[f |-> "weekly", now |-> n, items |-> ExampleWeek] : n \in Now}

\* the days of a set, latest first, one entry on each
RECURSIVE OnePerDay(_)
OnePerDay(days) ==
  IF days = {} THEN <<>>
  ELSE LET k == CHOOSE x \in days : \A y \in days : x <= y
       IN <<Listed(OnDay(k, k % SlotsPerDay), NoEmotions)>>
            \o OnePerDay(days \ {k})

\* every set of days from tomorrow to MaxDaysBack days back, and one entry
\* on every day or every second day back from day phase to a day hi next
\* to the horizon
StreakArgs ==
  {[f |-> "streak", now |-> n, items |-> l] :
     n \in Now,
     l \in {OnePerDay(days) : days \in SUBSET ((-1)..MaxDaysBack)}
         \cup {[i \in 1..(((hi - phase) \div step) + 1) |->
                  Listed(OnDay(phase + (i - 1) * step, i % SlotsPerDay),
                         NoEmotions)] :
                 step \in 1..2, phase \in 0..1,
                 hi \in (StreakHorizon - 2)..(StreakHorizon + 1)}}

\* updateDashboard computes the weekly counts of a list
Weekly ==
  /\ arg.f = "weekly"
  /\ ret = NoArg
  /\ ret' = [f |-> "counts",
             counts |-> computeWeeklyTop1Counts(arg.items, arg.now)]
  /\ UNCHANGED <<recVars, uiVars, arg, journalVars>>

\* updateStreakBadge computes the streak of a list
Streak ==
  /\ arg.f = "streak"
  /\ ret = NoArg
  /\ ret' = [f |-> "streak",
             streak |-> computeStreakWithGrace(arg.items, arg.now)]
  /\ UNCHANGED <<recVars, uiVars, arg, journalVars>>

PureInit ==
  /\ RecInit
  /\ limits \in Limits
  /\ ~limits.once
  /\ arg \in SearchArgs \cup WeeklyArgs \cup StreakArgs
  /\ ret = NoArg
  /\ JournalInit(<<>>)

SpecPure == PureInit /\ [][Search \/ Weekly \/ Streak]_vars

-----------------------------------------------------------------------------
(* Search, dashboard and streak: what they are to return.                    *)

\* the whitespace-separated lowercase terms of a query: its longest
\* stretches without whitespace, in lower case
TermsOf(query) ==
  LET s == toLowerCase(query)
      stretches ==
        {r \in (1..Len(s)) \X (1..Len(s)) :
           /\ r[1] <= r[2]
           /\ \A k \in r[1]..r[2] : s[k] \notin WhiteSpace
           /\ r[1] = 1 \/ s[r[1] - 1] \in WhiteSpace
           /\ r[2] = Len(s) \/ s[r[2] + 1] \in WhiteSpace}
  IN {SubSeq(s, r[1], r[2]) : r \in stretches}

IsSubstring(t, s) ==
  \E i \in 1..(Len(s) + 1) : \E j \in (i - 1)..Len(s) : SubSeq(s, i, j) = t

Matches(it, query) ==
  \A t \in TermsOf(query) :
    \/ IsSubstring(t, toLowerCase(it._transcript))
    \/ IsSubstring(t, join(it._imageTags))

Ids(list) == [i \in 1..Len(list) |-> list[i].id]

\* C13: a search shows exactly the cached entries in which every
\* whitespace-separated lowercase term of the query is a substring of the
\* lowercased transcript or of the space-joined image tags, in cache order;
\* a query with no term (empty or all whitespace) shows every cached entry.
C13_SearchShowsExactlyTheMatches ==
  ret.f = "shown" =>
    /\ ret.list = SelectSeq(arg.items, LAMBDA it : Matches(it, arg.query))
    /\ TermsOf(arg.query) = {} => ret.list = arg.items

\* a two-term query has been run over two entries and kept one of them
C13_Witness ==
  /\ ret.f = "shown"
  /\ Cardinality(TermsOf(arg.query)) = 2
  /\ Len(arg.items) = 2
  /\ Len(ret.list) = 1

ExampleSearched == arg = Example /\ ret.f = "shown"

\* C14 as stated: "happy quiet" over the three example entries shows
\* entries 2 and 3 only.
C14_ExampleShowsEntries2And3 ==
  ExampleSearched => Ids(ret.list) = <<2, 3>>

\* C14: "happy quiet" over the three example entries shows entry 2 only;
\* entry 1 and entry 3 both lack "quiet".
C14_ExampleShowsEntry2Only ==
  ExampleSearched => Ids(ret.list) = <<2>>

\* the example search has been run
C14_Witness == ExampleSearched /\ Len(ret.list) = 1

\* the entries of a list that were created in the last week and whose
\* top-ranked emotion has label L
InWeekWithTop(items, now, L) ==
  {i \in 1..Len(items) :
     /\ items[i].created_at.k = "date"
     /\ ymd(items[i].created_at) >= ymd(DateAt(now)) - WeekDays
     /\ items[i].emotions_top3.k = "array"
     /\ items[i].emotions_top3.labels # <<>>
     /\ items[i].emotions_top3.labels[1] = L}

\* C16: the weekly count of a label is the number of entries created no
\* more than 6 days before today whose top-ranked emotion has that label;
\* a label no such entry has gets no count.
C16_WeeklyCountsTopLabelsOfLastWeek ==
  ret.f = "counts" =>
    /\ DOMAIN ret.counts =
         {L \in Labels : InWeekWithTop(arg.items, arg.now, L) # {}}
    /\ \A L \in DOMAIN ret.counts :
         ret.counts[L] = Cardinality(InWeekWithTop(arg.items, arg.now, L))

\* today, today, 8 days ago with joy, joy, anger has given {joy: 2}
C16_Witness ==
  /\ ret.f = "counts"
  /\ arg.items = ExampleWeek
  /\ DOMAIN ret.counts = {"joy"}
  /\ ret.counts["joy"] = 2

\* the days, counted back from today, that have an entry
DaysBack(items, now) ==
  {ymd(DateAt(now)) - ymd(items[i].created_at) : i \in 1..Len(items)}

\* C17: the streak is the number of days with an entry from today back to
\* the first day that is the second of two days in a row without one, 365
\* days at most; one missed day, today included, does not end the scan.
C17_StreakCountsDaysUntilTwoMisses ==
  ret.f = "streak" =>
    LET present == DaysBack(arg.items, arg.now)
        second == {i \in 1..(StreakHorizon - 1) :
                     i \notin present /\ (i - 1) \notin present}
        end == IF second = {} THEN StreakHorizon
               ELSE CHOOSE i \in second : \A k \in second : i <= k
    IN ret.streak = Cardinality({i \in 0..(end - 1) : i \in present})

\* the days {T, T-1, T-3} have given a streak of 3
C17_Witness ==
  /\ ret.f = "streak"
  /\ DaysBack(arg.items, arg.now) = {0, 1, 3}
  /\ ret.streak = 3

-----------------------------------------------------------------------------
(* The journal: remote entry store, entry cache, search and the editor's     *)
(* staged attachments.                                                       *)

\* user events of one run, handlers that may wait at once, files that one
\* pick of the file dialog may hold
MaxEvents == 3
MaxCalls == 2
MaxFiles == 2

\* the names the remote services give are FirstAssigned and up
FirstAssigned == 10

\* JSON values that may be absent or of another type than expected
Undefined == [k |-> "undefined", v |-> <<>>]
Null == [k |-> "null", v |-> <<>>]
Str(v) == [k |-> "string", v |-> v]
Arr(v) == [k |-> "array", v |-> v]

\* x || null for a string, x || [] and Array.isArray(x) ? x : [] for a list
orNull(x) == IF x.k = "string" /\ x.v # <<>> THEN x ELSE Null
orEmpty(x) == IF x.k = "array" THEN x ELSE Arr(<<>>)

\* the object literal of lines 293, 395, 412 and 587
Attachment(im) ==
  [filename |-> im.filename, caption |-> orNull(im.caption),
   tags |-> orEmpty(im.tags)]

\* images.map(im => ({...})) of lines 395, 412 and 587
Attachments(images) == [i \in 1..Len(images) |-> Attachment(images[i])]

\* Array.isArray(entry.images) ? entry.images.map(...) : []
AttachmentsOf(entry) ==
  IF entry.images.k = "array" THEN Attachments(entry.images.v) ELSE <<>>

\* what /images/upload answers for the n-th image it takes: a caption and
\* tags, or neither
ImageAnswers(n) ==
  {[filename |-> n, caption |-> Str(<<"S", "u", "n", " ", "a">>),
    tags |-> Arr(<<<<"B">>>>)],
   [filename |-> n, caption |-> Str(<<>>), tags |-> Undefined]}

\* the characters of a transcript
Chars(t) ==
  IF t.k = "stored" THEN (IF t.a = 1 THEN <<"a", "b">> ELSE <<"b", "A">>)
  ELSE IF t.k = "file" THEN <<"a">>
  ELSE <<>>

\* the characters /[a-z0-9]/ matches
AlphaNum ==
  {Lower[i] : i \in 1..Len(Lower)}
  \cup {"0", "1", "2", "3", "4", "5", "6", "7", "8", "9"}

\* s.split(/[^a-z0-9]+/).filter(Boolean)
RECURSIVE splitTokens(_, _, _)
splitTokens(s, cur, acc) ==
  IF s = <<>>
    THEN IF cur = <<>> THEN acc ELSE Append(acc, cur)
    ELSE IF Head(s) \notin AlphaNum
      THEN splitTokens(Tail(s), <<>>,
                       IF cur = <<>> THEN acc ELSE Append(acc, cur))
      ELSE splitTokens(Tail(s), Append(cur, Head(s)), acc)

\* Array.from(new Set(tags)): the first occurrence of each element
RECURSIVE distinct(_, _)
distinct(tags, acc) ==
  IF tags = <<>> THEN acc
  ELSE distinct(Tail(tags),
                IF \E i \in 1..Len(acc) : acc[i] = Head(tags)
                  THEN acc ELSE Append(acc, Head(tags)))

\* lines 462-467 over the images that are left, tags being the list so far
RECURSIVE imageTags(_, _)
imageTags(images, tags) ==
  IF images = <<>> THEN tags
  ELSE LET im == Head(images)
           lowered == [i \in 1..Len(orEmpty(im.tags).v) |->
                         toLowerCase(orEmpty(im.tags).v[i])]
           tokens == IF orNull(im.caption) # Null
                       THEN splitTokens(toLowerCase(im.caption.v), <<>>, <<>>)
                       ELSE <<>>
       IN imageTags(Tail(images), tags \o lowered \o tokens)

\* an entry of the remote store
Stored(id, created, emotions, text, images) ==
  [id |-> id, created_at |-> created, emotions_top3 |-> emotions,
   audio_filename |-> id, transcript |-> text, images |-> images]

\* the variant of the list item that takes over the lazy fields the cache
\* has for the same id
ListingKeepingFields(e) ==
  LET old == {o \in Range(allEntries) : heap[o].id = e.id /\ heap[o].cached}
  IN IF old = {}
       THEN [id |-> e.id, created_at |-> e.created_at,
             emotions_top3 |-> e.emotions_top3, cached |-> FALSE,
             _transcript |-> <<>>, _imageTags |-> <<>>, fetched |-> 0]
       ELSE [heap[CHOOSE o \in old : TRUE] EXCEPT !.fetched = 0]

\* the entry object JSON parsing makes of a list item: no lazy field yet;
\* fetched counts the fetches of the full entry made for this object
Listing(e) ==
  [id |-> e.id, created_at |-> e.created_at,
   emotions_top3 |-> e.emotions_top3, cached |-> FALSE,
   _transcript |-> <<>>, _imageTags |-> <<>>, fetched |-> 0]

\* the entry of the store with this id, <<>> if there is none
Find(id) == SelectSeq(store, LAMBDA e : e.id = id)

\* the time of the run
RunNow == Today * SlotsPerDay + 1

\* ---- async handlers that wait ---------------------------------------------
\* calls with its c-th element taken out and the elements of more put last
Continue(c, more) ==
  SubSeq(calls, 1, c - 1) \o SubSeq(calls, c + 1, Len(calls)) \o more

Waiting(c, k) == c \in 1..Len(calls) /\ calls[c].k = k

\* a user event may happen
UserEvent ==
  /\ events < MaxEvents
  /\ events' = events + 1
  /\ answered' = [NoAnswer EXCEPT !.clean = answered.clean]

\* a user event that starts a handler which waits
UserCall ==
  /\ UserEvent
  /\ Len(calls) < MaxCalls

Shown(rows) == [k |-> "list", rows |-> rows]

\* ---- search ---------------------------------------------------------------
\* the loop of lines 483-489 from item i on, over the heap H: it runs on
\* while the items are cached, and ends at the first item to fetch (i) or
\* past the last item (i = 0)
RECURSIVE scan(_, _, _, _, _)
scan(terms, items, i, results, H) ==
  IF i > Len(items) THEN [i |-> 0, results |-> results]
  ELSE IF ~H[items[i]].cached THEN [i |-> i, results |-> results]
  ELSE scan(terms, items, i + 1,
            IF ok(H[items[i]], terms)
              THEN Append(results, items[i]) ELSE results,
            H)

\* renderHistoryWithQuery from item i on: what becomes of the heap and of
\* the panel, and the handler that waits for an entry, if one does
Resume(query, items, i, results, from, H, panel) ==
  LET terms == splitWords(toLowerCase(trim(query)), <<>>, <<>>)
      r == scan(terms, items, i, results, H)
  IN IF r.i = 0
       THEN [heap |-> H, panel |-> Shown(r.results), wait |-> <<>>]
       ELSE [heap |-> [H EXCEPT ![items[r.i]].fetched = @ + 1],
             panel |-> panel,
             wait |-> <<[k |-> "search", query |-> query, items |-> items,
                         i |-> r.i, results |-> r.results, from |-> from]>>]

\* renderHistoryWithQuery(query), up to its first wait
Render(query, items, from, H, panel) ==
  IF trim(query) = <<>>
    THEN [heap |-> H, panel |-> Shown(items), wait |-> <<>>]
    ELSE Resume(query, items, 1, <<>>, from, H, panel)

\* lines 637-642: the user changes the search text
TypeQuery(q) ==
  /\ UserEvent
  /\ q # searchInput
  /\ searchInput' = q
  /\ LET r == Render(q, allEntries, "input", heap, historyPanel)
     IN /\ Len(calls) + Len(r.wait) <= MaxCalls
        /\ heap' = r.heap
        /\ historyPanel' = r.panel
        /\ calls' = calls \o r.wait
  /\ UNCHANGED <<recVars, uiVars, fnVars, store, uploaded, allEntries,
                 dashboard, pendingImages, imagePreview>>

\* lines 626-634: History is clicked
ClickHistory ==
  /\ UserCall
  /\ historyPanel' = [k |-> "loading", rows |-> <<>>]
  /\ calls' = Append(calls, [k |-> "list", from |-> "history"])
  /\ UNCHANGED <<recVars, uiVars, fnVars, store, uploaded, heap, allEntries,
                 dashboard, searchInput, pendingImages, imagePreview>>

\* the list response of refreshHistoryCache, then lines 449-453
ListArrives(c) ==
  /\ Waiting(c, "list")
  /\ answered' = Answer(calls[c], TRUE)
  /\ LET fresh == [i \in 1..Len(store) |-> Listing(store[i])]
         items == [i \in 1..Len(store) |-> Len(heap) + i]
         r == Render(trim(searchInput), items, calls[c].from, heap \o fresh,
                     historyPanel)
     IN /\ allEntries' = items
        /\ dashboard' = [streak |-> computeStreakWithGrace(fresh, RunNow),
                         counts |-> computeWeeklyTop1Counts(fresh, RunNow)]
        /\ heap' = r.heap
        /\ historyPanel' = r.panel
        /\ calls' = Continue(c, r.wait)
  /\ UNCHANGED <<recVars, uiVars, fnVars, store, uploaded, searchInput,
                 pendingImages, imagePreview, events>>

\* fetchEntries throws (line 430), or fetchEntry throws in ensureEntryCached
\* (line 436): the catch of History, lines 631-633, shows the error
RefreshFails(c) ==
  /\ Waiting(c, "list") \/ Waiting(c, "search")
  /\ answered' = Answer(calls[c], FALSE)
  /\ historyPanel' = IF calls[c].from = "history"
                       THEN [k |-> "error", rows |-> <<>>]
                       ELSE historyPanel
  /\ calls' = Continue(c, <<>>)
  /\ UNCHANGED <<recVars, uiVars, fnVars, store, uploaded, heap, allEntries,
                 dashboard, searchInput, pendingImages, imagePreview, events>>

\* the entry a search waits for arrives: lines 460-469, then the loop goes on
SearchEntryArrives(c) ==
  /\ Waiting(c, "search")
  /\ answered' = Answer(calls[c], TRUE)
  /\ LET w == calls[c]
         o == w.items[w.i]
     IN /\ Find(heap[o].id) # <<>>
        /\ LET full == Find(heap[o].id)[1]
               H == [heap EXCEPT
                       ![o].cached = TRUE,
                       ![o]._transcript = Chars(full.transcript),
                       ![o]._imageTags =
                         distinct(imageTags(orEmpty(full.images).v, <<>>),
                                  <<>>)]
               r == Resume(w.query, w.items, w.i, w.results, w.from, H,
                           historyPanel)
           IN /\ heap' = r.heap
              /\ historyPanel' = r.panel
              /\ calls' = Continue(c, r.wait)
  /\ UNCHANGED <<recVars, uiVars, fnVars, store, uploaded, allEntries,
                 dashboard, searchInput, pendingImages, imagePreview, events>>

\* ---- the editor -------------------------------------------------------------
Rows == IF historyPanel.k = "list" THEN historyPanel.rows ELSE <<>>

\* lines 566-573: row r of the panel is clicked
ClickRow(r) ==
  /\ UserCall
  /\ r \in 1..Len(Rows)
  /\ statusLine' = Txt("loading", 0)
  /\ transcriptBox' = Empty
  /\ heap' = [heap EXCEPT ![Rows[r]].fetched = @ + 1]
  /\ calls' = Append(calls, [k |-> "open", id |-> heap[Rows[r]].id])
  /\ UNCHANGED <<recVars, lastTranscribe, fnVars, store, uploaded,
                 allEntries, historyPanel, dashboard, searchInput,
                 pendingImages, imagePreview>>

\* lines 575-589: the entry of a clicked row arrives; the uploads of images
\* that wait are marked, an entry has been loaded since they were picked
OpenArrives(c) ==
  /\ Waiting(c, "open")
  /\ answered' = Answer(calls[c], TRUE)
  /\ Find(calls[c].id) # <<>>
  /\ LET entry == Find(calls[c].id)[1]
     IN /\ statusLine' = Txt("entry", entry.id)
        /\ transcriptBox' = entry.transcript
        /\ lastTranscribe' = [filename |-> entry.audio_filename,
                              transcript |-> entry.transcript]
        /\ pendingImages' = AttachmentsOf(entry)
        /\ imagePreview' = Len(AttachmentsOf(entry))
  /\ calls' = [i \in 1..(Len(calls) - 1) |->
                LET w == Continue(c, <<>>)[i]
                IN IF w.k = "image" THEN [w EXCEPT !.stale = TRUE] ELSE w]
  /\ UNCHANGED <<recVars, fnVars, store, uploaded, heap, allEntries,
                 historyPanel, dashboard, searchInput, events>>

\* lines 591-595
OpenFails(c) ==
  /\ Waiting(c, "open")
  /\ answered' = Answer(calls[c], FALSE)
  /\ statusLine' = Empty
  /\ transcriptBox' = Txt("error", calls[c].id)
  /\ calls' = Continue(c, <<>>)
  /\ UNCHANGED <<recVars, lastTranscribe, fnVars, store, uploaded, heap,
                 allEntries, historyPanel, dashboard, searchInput,
                 pendingImages, imagePreview, events>>

\* lines 354-358: n files are picked; the button is disabled while a pick
\* is being uploaded
PickImages(n) ==
  /\ UserCall
  /\ n \in 1..MaxFiles
  /\ \A c \in 1..Len(calls) : calls[c].k # "image"
  /\ calls' = Append(calls, [k |-> "image", left |-> n, stale |-> FALSE])
  /\ UNCHANGED <<recVars, uiVars, fnVars, store, uploaded, heap, allEntries,
                 historyPanel, dashboard, searchInput, pendingImages,
                 imagePreview>>

\* the loop of lines 359-366 after the response for one file: the next file
\* is sent, or the cards are drawn anew
AfterImage(c, staged) ==
  IF calls[c].left > 1
    THEN /\ calls' = [calls EXCEPT ![c].left = @ - 1]
         /\ UNCHANGED imagePreview
    ELSE /\ calls' = Continue(c, <<>>)
         /\ imagePreview' = Len(staged)

\* lines 361-362: the media store has taken the image
ImageArrives(c) ==
  /\ Waiting(c, "image")
  /\ answered' = Answer(calls[c], TRUE)
  /\ uploaded' = uploaded + 1
  /\ \E j \in ImageAnswers(FirstAssigned + uploaded) :
       pendingImages' = Append(pendingImages, Attachment(j))
  /\ AfterImage(c, pendingImages')
  /\ UNCHANGED <<recVars, uiVars, fnVars, store, heap, allEntries,
                 historyPanel, dashboard, searchInput, events>>

\* lines 363-365
ImageFails(c) ==
  /\ Waiting(c, "image")
  /\ answered' = Answer(calls[c], FALSE)
  /\ AfterImage(c, pendingImages)
  /\ UNCHANGED <<recVars, uiVars, fnVars, store, uploaded, heap, allEntries,
                 historyPanel, dashboard, searchInput, pendingImages, events>>

\* lines 338-341: Remove on card idx, counted from 0
ClickRemove(idx) ==
  /\ UserEvent
  /\ idx \in 0..(imagePreview - 1)
  /\ pendingImages' = SubSeq(pendingImages, 1, idx)
                         \o SubSeq(pendingImages, idx + 2, Len(pendingImages))
  /\ imagePreview' = Len(pendingImages')
  /\ UNCHANGED <<recVars, uiVars, fnVars, store, uploaded, heap, allEntries,
                 historyPanel, dashboard, searchInput, calls>>

\* the variant of the request that leaves the last attachment out
SaveImagesButLast(staged) ==
  Attachments(SubSeq(staged, 1, Len(staged) - 1))

\* line 395: the images of the save request
SaveImages(staged) == Attachments(staged)

\* lines 379-397: Save is clicked with something to save; the request holds
\* the staged attachments as they are now
ClickSave ==
  /\ UserCall
  /\ lastTranscribe.filename # 0
  /\ calls' = Append(calls, [k |-> "save",
                             filename |-> lastTranscribe.filename,
                             transcript |-> transcriptBox,
                             images |-> SaveImages(pendingImages)])
  /\ UNCHANGED <<recVars, uiVars, fnVars, store, uploaded, heap, allEntries,
                 historyPanel, dashboard, searchInput, pendingImages,
                 imagePreview>>

\* lines 381-384: Save is clicked with nothing to save
ClickSaveNothing ==
  /\ UserEvent
  /\ lastTranscribe.filename = 0
  /\ UNCHANGED <<recVars, uiVars, fnVars, store, uploaded, heap, allEntries,
                 historyPanel, dashboard, searchInput, pendingImages,
                 imagePreview, calls>>

\* the store takes the entry and assigns its id; lines 398-405, up to the
\* fetch of the saved entry
SaveArrives(c) ==
  /\ Waiting(c, "save")
  /\ answered' = Answer(calls[c], TRUE)
  /\ LET id == FirstAssigned + uploaded
         entry == Stored(id, DateAt(RunNow), Emotions(<<"anger">>),
                         calls[c].transcript, Arr(calls[c].images))
     IN /\ store' = <<[entry EXCEPT !.audio_filename = calls[c].filename]>>
                      \o store
        /\ calls' = Continue(c, <<[k |-> "saved", id |-> id]>>)
  /\ uploaded' = uploaded + 1
  /\ UNCHANGED <<recVars, uiVars, fnVars, heap, allEntries, historyPanel,
                 dashboard, searchInput, pendingImages, imagePreview, events>>

\* lines 405-415: the saved entry arrives; then the refresh is started
SavedArrives(c) ==
  /\ Waiting(c, "saved")
  /\ answered' = Answer(calls[c], TRUE)
  /\ Find(calls[c].id) # <<>>
  /\ LET entry == Find(calls[c].id)[1]
     IN /\ statusLine' = IF entry.emotions_top3.k = "array"
                            /\ entry.emotions_top3.labels # <<>>
                           THEN Txt("saved", entry.id)
                           ELSE statusLine
        /\ pendingImages' = AttachmentsOf(entry)
        /\ imagePreview' = Len(AttachmentsOf(entry))
  /\ calls' = Continue(c, <<[k |-> "list", from |-> "save"]>>)
  /\ UNCHANGED <<recVars, transcriptBox, lastTranscribe, fnVars, store,
                 uploaded, heap, allEntries, historyPanel, dashboard,
                 searchInput, events>>

\* lines 499-503: Delete on row r, confirmed
ClickDelete(r) ==
  /\ UserCall
  /\ r \in 1..Len(Rows)
  /\ calls' = Append(calls, [k |-> "delete", id |-> heap[Rows[r]].id])
  /\ UNCHANGED <<recVars, uiVars, fnVars, store, uploaded, heap, allEntries,
                 historyPanel, dashboard, searchInput, pendingImages,
                 imagePreview>>

\* the store drops the entry; line 505 starts the refresh
DeleteArrives(c) ==
  /\ Waiting(c, "delete")
  /\ answered' = Answer(calls[c], TRUE)
  /\ Find(calls[c].id) # <<>>
  /\ store' = SelectSeq(store, LAMBDA e : e.id # calls[c].id)
  /\ calls' = Continue(c, <<[k |-> "list", from |-> "delete"]>>)
  /\ UNCHANGED <<recVars, uiVars, fnVars, uploaded, heap, allEntries,
                 historyPanel, dashboard, searchInput, pendingImages,
                 imagePreview, events>>

\* the save fails (lines 419-421), the fetch of the saved entry fails
\* (lines 416-418) or the delete fails (lines 507-509): a message, and the
\* handler returns
CallFails(c) ==
  /\ Waiting(c, "save") \/ Waiting(c, "saved") \/ Waiting(c, "delete")
  /\ answered' = Answer(calls[c], FALSE)
  /\ calls' = Continue(c, <<>>)
  /\ UNCHANGED <<recVars, uiVars, fnVars, store, uploaded, heap, allEntries,
                 historyPanel, dashboard, searchInput, pendingImages,
                 imagePreview, events>>

\* lines 259-265: a sound file is sent to be transcribed
ClickUpload ==
  /\ UserCall
  /\ statusLine' = Txt("uploading", 0)
  /\ transcriptBox' = Empty
  /\ calls' = Append(calls, [k |-> "transcribe"])
  /\ UNCHANGED <<recVars, lastTranscribe, fnVars, store, uploaded, heap,
                 allEntries, historyPanel, dashboard, searchInput,
                 pendingImages, imagePreview>>

\* lines 267-276
TranscribeArrives(c) ==
  /\ Waiting(c, "transcribe")
  /\ answered' = Answer(calls[c], TRUE)
  /\ LET n == FirstAssigned + uploaded
     IN /\ statusLine' = Txt("transcribed", n)
        /\ transcriptBox' = Txt("file", n)
        /\ lastTranscribe' = [filename |-> n, transcript |-> Txt("file", n)]
  /\ uploaded' = uploaded + 1
  /\ calls' = Continue(c, <<>>)
  /\ UNCHANGED <<recVars, fnVars, store, heap, allEntries, historyPanel,
                 dashboard, searchInput, pendingImages, imagePreview, events>>

\* lines 277-281
TranscribeFails(c) ==
  /\ Waiting(c, "transcribe")
  /\ answered' = Answer(calls[c], FALSE)
  /\ statusLine' = Empty
  /\ transcriptBox' = Txt("error", 0)
  /\ calls' = Continue(c, <<>>)
  /\ UNCHANGED <<recVars, lastTranscribe, fnVars, store, uploaded, heap,
                 allEntries, historyPanel, dashboard, searchInput,
                 pendingImages, imagePreview, events>>

JournalStart ==
  /\ RecInit
  /\ limits \in Limits
  /\ ~limits.once
  /\ arg = NoArg
  /\ ret = NoArg
  /\ \E s \in
       {<<>>,
        <<Stored(1, OnDay(1, 0), Emotions(<<"joy">>), Txt("stored", 1),
                 Undefined)>>,
        <<Stored(2, OnDay(0, 1), NoEmotions, Txt("stored", 2),
                 Arr(<<[filename |-> 9, caption |-> Str(<<>>),
                        tags |-> Arr(<<<<"A">>>>)]>>)),
          Stored(1, OnDay(1, 0), Emotions(<<"joy">>), Txt("stored", 1),
                 Undefined)>>} :
       JournalInit(s)

JournalNext ==
  \/ ClickHistory
  \/ ClickSave
  \/ ClickSaveNothing
  \/ ClickUpload
  \/ \E q \in {<<>>, <<"a">>, <<"B", " ">>} : TypeQuery(q)
  \/ \E r \in 1..Len(Rows) : ClickRow(r) \/ ClickDelete(r)
  \/ \E n \in 1..MaxFiles : PickImages(n)
  \/ \E idx \in 0..(imagePreview - 1) : ClickRemove(idx)
  \/ \E c \in 1..Len(calls) :
       \/ ListArrives(c) \/ SearchEntryArrives(c) \/ RefreshFails(c)
       \/ OpenArrives(c) \/ OpenFails(c)
       \/ ImageArrives(c) \/ ImageFails(c)
       \/ SaveArrives(c) \/ SavedArrives(c) \/ DeleteArrives(c)
       \/ CallFails(c)
       \/ TranscribeArrives(c) \/ TranscribeFails(c)

SpecJournal == JournalStart /\ [][JournalNext]_vars

-----------------------------------------------------------------------------
(* The journal: cache, hydration and staged attachments.                     *)

\* C15: between two refreshes the full entry of a cached entry is fetched
\* at most once, whether searches or detail views need it and however many
\* of them are in progress.
C15_CachedEntryFetchedAtMostOnce ==
  \A i \in 1..Len(allEntries) : heap[allEntries[i]].fetched <= 1

\* the task just run handled the success or the failure of a call of kind k
Handled(k, success) == answered'.call.k = k /\ answered'.ok = success

\* C18: when an entry has been loaded the staged attachments are exactly
\* the attachments committed to it, and an image upload that was started
\* before the load and completes after it adds nothing to them.
C18_LoadReplacesStagedSet ==
  [][/\ Handled("open", TRUE) =>
          pendingImages' = AttachmentsOf(Find(answered'.call.id)[1])
     /\ Handled("image", TRUE) /\ answered'.call.stale =>
          pendingImages' = pendingImages]_vars

\* C19: the save request made by a click on Save carries the staged
\* attachments as they are at the click: every one, in staged order, and
\* nothing else.
C19_SaveCarriesStagedSet ==
  [][Len(calls') = Len(calls) + 1 /\ calls'[Len(calls')].k = "save" =>
       calls'[Len(calls')].images = pendingImages]_vars

\* a save request with two attachments, one with caption and tags and one
\* without, is on its way
C19_Witness ==
  \E c \in 1..Len(calls) :
    /\ calls[c].k = "save"
    /\ Len(calls[c].images) = 2
    /\ calls[c].images[1].caption # calls[c].images[2].caption
    /\ calls[c].images = pendingImages

\* C20: a successful refresh puts in the cache one new entry object per
\* entry of the list the store returned, in its order and with no lazy
\* field, and no object of the cache before; a refresh whose list fetch
\* fails leaves the cache and every entry object as they were.
C20_RefreshReplacesOrLeavesCache ==
  [][/\ Handled("list", TRUE) =>
          /\ Len(allEntries') = Len(store)
          /\ \A i \in 1..Len(allEntries') :
               /\ allEntries'[i] \notin 1..Len(heap)
               /\ heap'[allEntries'[i]].id = store[i].id
               /\ ~heap'[allEntries'[i]].cached
          /\ \A i, k \in 1..Len(allEntries') :
               allEntries'[i] = allEntries'[k] => i = k
     /\ Handled("list", FALSE) =>
          /\ allEntries' = allEntries
          /\ heap' = heap]_vars

\* a refresh has just replaced a cache that had a hydrated entry
C20_Witness ==
  /\ answered.call.k = "list"
  /\ answered.ok
  /\ allEntries # <<>>
  /\ \E o \in 1..Len(heap) : heap[o].cached /\ o \notin Range(allEntries)

\* C25: a failed hydration fetch during a search leaves the entry it was for
\* unhydrated, with neither transcript nor image tags, leaves every entry
\* object and the cached list as they were, and the next search that comes
\* to the entry fetches it again.
C25_FailedHydrationLeavesCache ==
  [][Handled("search", FALSE) =>
       LET o == answered'.call.items[answered'.call.i]
       IN /\ ~heap'[o].cached
          /\ heap'[o]._transcript = <<>>
          /\ heap'[o]._imageTags = <<>>
          /\ heap' = heap
          /\ allEntries' = allEntries
          /\ scan(<<>>, <<o>>, 1, <<>>, heap').i = 1]_vars

\* C26: once every search and refresh that was started has completed, the
\* history list shows the result of the most recently issued query, which
\* is the text of the search field, over the current cache: all its entries
\* for a blank query, else those that match every term, in cache order
\* (rows are compared by the ids of the entries they show).
C26_DisplayIsLatestQuery ==
  (/\ \A c \in 1..Len(calls) : calls[c].k \notin {"list", "search"}
   /\ answered.clean
   /\ historyPanel.k = "list")
    => LET terms == splitWords(toLowerCase(trim(searchInput)), <<>>, <<>>)
           due == IF terms = <<>> THEN allEntries
                  ELSE SelectSeq(allEntries,
                         LAMBDA o : heap[o].cached /\ ok(heap[o], terms))
       IN [i \in 1..Len(historyPanel.rows) |-> heap[historyPanel.rows[i]].id]
            = [i \in 1..Len(due) |-> heap[due[i]].id]

\* C27: an attachment staged after a successful image upload leaves the
\* staged set only when the user removes it, when an entry is loaded, or
\* after it was submitted in a save request; one that is added while a save
\* or its follow-up entry fetch is in flight is not dropped.
C27_StagedAttachmentKept ==
  [][\A i \in 1..Len(pendingImages) :
       LET f == pendingImages[i].filename
           submitted(images) == \E k \in 1..Len(images) : images[k].filename = f
       IN (\A k \in 1..Len(pendingImages') : pendingImages'[k].filename # f) =>
            \/ answered'.call.k = "none" /\ Len(pendingImages') = Len(pendingImages) - 1
            \/ Handled("open", TRUE)
            \/ \E e \in 1..Len(store) : submitted(orEmpty(store[e].images).v)
            \/ \E c \in 1..Len(calls) :
                 calls[c].k = "save" /\ submitted(calls[c].images)]_vars

=============================================================================
